---- MODULE Spec2Model ----
(***************************************************************************)
(* Access-code lifecycle and validation engine of serziamserver.py:        *)
(* deterministic code derivation, the single current record of the         *)
(* access_codes table, the AccessValidator session and the menu around it. *)
(***************************************************************************)
EXTENDS Integers, Sequences, FiniteSets, TLC

(***************************************************************************)
(* Bounds of the model                                                     *)
(***************************************************************************)
\* number of calendar months the clock can run through, from WindowStart
MonthsHorizon == 2
\* entries the operator types in one session of the main specification
MaxEntries == 4

\* the longest code asked of the derivation loop (a digest has 32 bytes)
MaxLength == 34

(***************************************************************************)
(* Program constants                                                       *)
(***************************************************************************)
\* AccessValidator.max_attempts
max_attempts == 3
\* the "unlimited" attempt bound of _prompt_for_code
unlimited_max == 9999
\* default length of generate_deterministic_code
CodeLength == 8
\* first month of the clock window, as <<year, month>>
WindowStart == << 2024, 12 >>

(***************************************************************************)
(* Characters and strings: a string is a sequence of one-character strings *)
(***************************************************************************)
chars ==
  << "A","B","C","D","E","F","G","H","I","J","K","L","M","N","O","P","Q","R",
     "S","T","U","V","W","X","Y","Z","0","1","2","3","4","5","6","7","8","9" >>

LowerLetters ==
  << "a","b","c","d","e","f","g","h","i","j","k","l","m","n","o","p","q","r",
     "s","t","u","v","w","x","y","z" >>

Whitespace == {" ", "\t"}

\* str.upper() on one character
UpperChar(c) ==
  IF \E k \in 1..26 : LowerLetters[k] = c
    THEN chars[CHOOSE k \in 1..26 : LowerLetters[k] = c]
    ELSE c

\* str.upper()
Upper(s) == [k \in 1..Len(s) |-> UpperChar(s[k])]

\* str.lower() on the letters of a code
LowerChar(c) ==
  IF \E k \in 1..26 : chars[k] = c
    THEN LowerLetters[CHOOSE k \in 1..26 : chars[k] = c]
    ELSE c

Lower(s) == [k \in 1..Len(s) |-> LowerChar(s[k])]

\* str.strip(): drop leading and trailing whitespace
RECURSIVE LStrip(_)
LStrip(s) ==
  IF s # << >> /\ Head(s) \in Whitespace THEN LStrip(Tail(s)) ELSE s

RECURSIVE RStrip(_)
RStrip(s) ==
  IF s # << >> /\ s[Len(s)] \in Whitespace
    THEN RStrip(SubSeq(s, 1, Len(s) - 1))
    ELSE s

Strip(s) == RStrip(LStrip(s))

\* variant: the entry is uppercased and not stripped
NormalizeEntry_UpperOnly(raw) == Upper(raw)

\* Terminal.getpass(...).strip().upper()
NormalizeEntry(raw) == Upper(Strip(raw))

(***************************************************************************)
(* Calendar: a datetime is <<year, month, day, hour, minute, second>>      *)
(***************************************************************************)
IsLeap(y) == (y % 4 = 0 /\ y % 100 # 0) \/ (y % 400 = 0)

DaysInMonth(y, m) ==
  IF m = 2 THEN (IF IsLeap(y) THEN 29 ELSE 28)
  ELSE IF m \in {4, 6, 9, 11} THEN 30 ELSE 31

\* date - timedelta(days=1)
MinusOneDay(t) ==
  IF t[3] > 1 THEN << t[1], t[2], t[3] - 1, t[4], t[5], t[6] >>
  ELSE IF t[2] > 1
    THEN << t[1], t[2] - 1, DaysInMonth(t[1], t[2] - 1), t[4], t[5], t[6] >>
    ELSE << t[1] - 1, 12, 31, t[4], t[5], t[6] >>

\* datetime comparison a > b
RECURSIVE LexGreater(_, _, _)
LexGreater(a, b, k) ==
  IF k > 6 THEN FALSE
  ELSE IF a[k] # b[k] THEN a[k] > b[k]
  ELSE LexGreater(a, b, k + 1)

After(a, b) == LexGreater(a, b, 1)

\* datetime + timedelta(seconds=1)
PlusOneSecond(t) ==
  IF t[6] < 59 THEN << t[1], t[2], t[3], t[4], t[5], t[6] + 1 >>
  ELSE IF t[5] < 59 THEN << t[1], t[2], t[3], t[4], t[5] + 1, 0 >>
  ELSE IF t[4] < 23 THEN << t[1], t[2], t[3], t[4] + 1, 0, 0 >>
  ELSE IF t[3] < DaysInMonth(t[1], t[2])
    THEN << t[1], t[2], t[3] + 1, 0, 0, 0 >>
  ELSE IF t[2] < 12 THEN << t[1], t[2] + 1, 1, 0, 0, 0 >>
  ELSE << t[1] + 1, 1, 1, 0, 0, 0 >>

\* variant: the month after December is taken in the same year
ExpiryFromDate_NoRollover(current_date) ==
  LET next_month ==
        IF current_date[2] = 12
          THEN << current_date[1], 1, 1, 0, 0, 0 >>
          ELSE << current_date[1], current_date[2] + 1, 1, 0, 0, 0 >>
      last == MinusOneDay(next_month)
  IN << last[1], last[2], last[3], 23, 59, 59 >>

\* the end-of-month computation shared by bootstrap, expiry handling and
\* manual regeneration
ExpiryFromDate(current_date) ==
  LET next_month ==
        IF current_date[2] = 12
          THEN << current_date[1] + 1, 1, 1, 0, 0, 0 >>
          ELSE << current_date[1], current_date[2] + 1, 1, 0, 0, 0 >>
      last == MinusOneDay(next_month)
  IN << last[1], last[2], last[3], 23, 59, 59 >>

(***************************************************************************)
(* Period strings "MM-YYYY"                                                *)
(***************************************************************************)
Digits == << "0","1","2","3","4","5","6","7","8","9" >>

DigitOf(n) == Digits[n + 1]

DigitVal(c) == (CHOOSE k \in 1..10 : Digits[k] = c) - 1

\* f"{month:02d}-{year}" for a four-digit year
FormatPeriod(t) ==
  << DigitOf(t[2] \div 10), DigitOf(t[2] % 10), "-",
     DigitOf(t[1] \div 1000), DigitOf((t[1] \div 100) % 10),
     DigitOf((t[1] \div 10) % 10), DigitOf(t[1] % 10) >>

\* int(month_year.split('-')[0]) and int(month_year.split('-')[1])
PeriodMonth(p) == DigitVal(p[1]) * 10 + DigitVal(p[2])
PeriodYear(p) ==
  DigitVal(p[4]) * 1000 + DigitVal(p[5]) * 100 + DigitVal(p[6]) * 10
    + DigitVal(p[7])

(***************************************************************************)
(* Timestamps as sqlite3 stores them: "YYYY-MM-DD HH:MM:SS"                *)
(***************************************************************************)
TwoDigits(n) == << DigitOf((n \div 10) % 10), DigitOf(n % 10) >>

FourDigits(n) == TwoDigits(n \div 100) \o TwoDigits(n % 100)

\* the value bound to the expires_at column for a datetime parameter:
\* sqlite3's datetime adapter, isoformat(" ") of a value without microseconds
adapt_datetime(t) ==
  FourDigits(t[1]) \o << "-" >> \o TwoDigits(t[2]) \o << "-" >>
    \o TwoDigits(t[3]) \o << " " >> \o TwoDigits(t[4]) \o << ":" >>
    \o TwoDigits(t[5]) \o << ":" >> \o TwoDigits(t[6])

\* int() of a string of decimal digits
RECURSIVE IntOf(_)
IntOf(s) ==
  IF s = << >> THEN 0
  ELSE IntOf(SubSeq(s, 1, Len(s) - 1)) * 10 + DigitVal(s[Len(s)])

\* datetime.strptime(s, '%Y-%m-%d %H:%M:%S')
strptime(s) ==
  << IntOf(SubSeq(s, 1, 4)), IntOf(SubSeq(s, 6, 7)), IntOf(SubSeq(s, 9, 10)),
     IntOf(SubSeq(s, 12, 13)), IntOf(SubSeq(s, 15, 16)),
     IntOf(SubSeq(s, 18, 19)) >>

(***************************************************************************)
(* Code derivation                                                         *)
(***************************************************************************)
\* HMAC-SHA-256(SECRET_SEED, month_year).digest() for the periods of the
\* clock window (values computed with the program's secret)
Digest(month_year) ==
  CASE month_year = << "1","1","-","2","0","2","4" >> ->
         << 38,123,163,153,240,210,21,186,184,10,39,80,128,10,174,128,
            159,156,104,122,255,50,99,226,253,142,104,127,207,197,222,176 >>
    [] month_year = << "1","2","-","2","0","2","4" >> ->
         << 63,63,36,119,236,165,88,172,76,81,193,252,204,164,115,98,
            229,132,219,95,246,115,36,100,173,120,23,68,108,28,34,43 >>
    [] month_year = << "0","1","-","2","0","2","5" >> ->
         << 111,235,55,190,2,126,182,92,70,118,173,83,124,143,40,189,
            49,225,66,244,43,104,77,88,140,121,76,171,26,240,14,186 >>
    [] month_year = << "0","2","-","2","0","2","5" >> ->
         << 93,218,111,111,171,60,121,169,4,208,109,232,120,10,78,0,
            151,129,174,104,49,59,226,113,127,40,0,63,224,97,227,170 >>
    [] month_year = << "0","3","-","2","0","2","5" >> ->
         << 142,10,135,103,139,201,79,155,30,207,123,181,98,134,158,90,
            159,212,214,32,188,17,202,50,236,141,47,212,173,220,66,144 >>
    [] month_year = << "0","4","-","2","0","2","5" >> ->
         << 142,74,230,41,167,27,211,71,251,51,195,102,74,100,203,17,
            157,139,228,8,123,120,255,238,14,84,161,192,222,132,77,8 >>

\* the same digests under the key "asterisk_secure_deterministic_v2", a key
\* that differs from the program's in its last character
DigestOtherKey(month_year) ==
  CASE month_year = << "1","1","-","2","0","2","4" >> ->
         << 81,160,216,63,38,90,8,152,206,75,7,54,37,54,12,196,
            176,33,38,183,226,230,4,8,136,91,248,27,156,200,154,214 >>
    [] month_year = << "1","2","-","2","0","2","4" >> ->
         << 108,110,163,158,234,92,10,194,13,70,57,168,96,186,175,96,
            2,156,64,156,173,40,186,232,133,38,173,24,48,227,81,89 >>
    [] month_year = << "0","1","-","2","0","2","5" >> ->
         << 82,167,55,155,47,93,229,187,136,38,187,0,55,31,152,71,
            126,188,177,78,143,44,16,144,254,14,20,14,225,61,134,29 >>
    [] month_year = << "0","2","-","2","0","2","5" >> ->
         << 154,144,3,224,245,251,107,211,219,5,181,193,212,96,53,165,
            208,106,88,203,30,224,31,173,46,174,88,230,64,164,117,127 >>
    [] month_year = << "0","3","-","2","0","2","5" >> ->
         << 215,33,191,16,243,215,220,70,201,19,170,17,144,153,21,173,
            92,189,158,62,210,140,151,26,144,2,77,57,145,16,216,66 >>
    [] month_year = << "0","4","-","2","0","2","5" >> ->
         << 85,88,242,213,233,235,196,46,135,62,242,169,102,47,103,248,
            57,248,251,23,83,0,20,237,89,104,253,180,214,103,42,137 >>

\* Config.SECRET_SEED
SECRET_SEED == "asterisk_secure_deterministic_v1"

\* hmac.new(key, msg, hashlib.sha256).digest()
hmac_sha256(key, msg) ==
  CASE key = "asterisk_secure_deterministic_v1" -> Digest(msg)
    [] key = "asterisk_secure_deterministic_v2" -> DigestOtherKey(msg)

\* variant: the sum of byte and position is kept in one byte
CodeChar_ByteWrap(hash_bytes, i) ==
  LET byte_val == (hash_bytes[(i % Len(hash_bytes)) + 1] + i) % 256
  IN chars[(byte_val % Len(chars)) + 1]

\* the loop body of generate_deterministic_code for position i (0-based)
CodeChar(hash_bytes, i) ==
  LET byte_val == hash_bytes[(i % Len(hash_bytes)) + 1] + i
  IN chars[(byte_val % Len(chars)) + 1]

CodeFromDigest(hash_bytes, length) ==
  [k \in 1..length |-> CodeChar(hash_bytes, k - 1)]

generate_deterministic_code(month_year, length) ==
  CodeFromDigest(hmac_sha256(SECRET_SEED, month_year), length)

\* get_current_period() at clock value t
get_current_period(t) == FormatPeriod(t)

\* get_current_code() at clock value t
get_current_code(t) ==
  generate_deterministic_code(get_current_period(t), CodeLength)

(***************************************************************************)
(* codegenerator.py                                                        *)
(***************************************************************************)
\* variant: the standalone script is configured with another secret
codegenerator_SECRET_SEED_Other == "asterisk_secure_deterministic_v2"

\* SECRET_SEED of codegenerator.py
codegenerator_SECRET_SEED == "asterisk_secure_deterministic_v1"

\* chars of generate_code
codegenerator_chars ==
  << "A","B","C","D","E","F","G","H","I","J","K","L","M","N","O","P","Q","R",
     "S","T","U","V","W","X","Y","Z","0","1","2","3","4","5","6","7","8","9" >>

\* generate_code(month_year) at clock value t; << >> stands for None
generate_code(month_year, t) ==
  LET period == IF month_year = << >> THEN FormatPeriod(t) ELSE month_year
      hash_bytes == hmac_sha256(codegenerator_SECRET_SEED, period)
  IN [k \in 1..8 |->
        LET i == k - 1
            byte_val == hash_bytes[(i % Len(hash_bytes)) + 1] + i
        IN codegenerator_chars[(byte_val % Len(codegenerator_chars)) + 1]]

(***************************************************************************)
(* The clock                                                               *)
(***************************************************************************)
\* the k-th month of the clock window, as <<year, month>>
MonthAt(k) ==
  << WindowStart[1] + ((WindowStart[2] - 1 + k) \div 12),
     ((WindowStart[2] - 1 + k) % 12) + 1 >>

\* the instants datetime.now() can return: the middle and the last second
\* of each month of the window and the first second of the month after it
Instants ==
  { << MonthAt(k)[1], MonthAt(k)[2], 15, 12, 0, 0 >> : k \in 0..(MonthsHorizon - 1) }
  \cup
  { << MonthAt(k)[1], MonthAt(k)[2], DaysInMonth(MonthAt(k)[1], MonthAt(k)[2]),
       23, 59, 59 >> : k \in 0..(MonthsHorizon - 1) }
  \cup
  { << MonthAt(k)[1], MonthAt(k)[2], 1, 0, 0, 0 >> : k \in 1..MonthsHorizon }

(***************************************************************************)
(* State                                                                   *)
(***************************************************************************)
VARIABLES
  now,                \* the wall clock read by datetime.now()
  store,              \* the rows of access_codes (at most the row id = 1)
  running,            \* whether the asterisk service is running
  pc,                 \* position of the program
  caller,             \* which call of check_and_validate_access is running
  bootsLeft,          \* _ensure_main_database calls left before the first check
  current_date,       \* local of the running regeneration
  month_year,         \* local of the running regeneration
  new_code,           \* local of the running regeneration
  is_expired,         \* value returned by is_code_expired() in this session
  unlimited_attempts, \* argument of _prompt_for_code
  attempts,           \* local of _prompt_for_code
  result,             \* value returned by check_and_validate_access
  msg,                \* last message of the validator to the operator
  hadRecord,          \* the Store held a record when the session started
  stopCalls,          \* asterisk_manager.stop() calls of this session
  startCalls,         \* asterisk_manager.start() calls of this session
  startOk,            \* value returned by the session's start() call
  replaceCalls,       \* update_access_code calls of this session
  replaceOk,          \* value returned by the session's update_access_code
  runningAfterStop,   \* service state left by the session's stop() call
  checkedAt,          \* clock value is_code_expired() compared, until the next step
  expirySeen,         \* expires_at is_code_expired() compared in this session
  codeSeen,           \* code of the row is_code_expired() read in this session
  entered_code,       \* the entry on which _prompt_for_code returned
  stopOk,             \* value returned by stop(), until the first entry
  gateBlocked,        \* the validator's stop() took the service down and no
                      \* start followed
  access_attempts,    \* the rows of the access_attempts table
  access_codes_history, \* the rows of the access_codes_history table
  fnName,             \* the function a function-level run applies
  fnArgs,             \* its arguments
  fnResult,           \* its result
  peerPc,             \* position of a second running instance of the program
  peerCaller,         \* which call of check_and_validate_access it runs
  peerUnlimited,      \* unlimited_attempts of its _prompt_for_code
  peerAttempts,       \* attempts of its _prompt_for_code
  peerResult,         \* value its check_and_validate_access returned
  peerStopCalls,      \* stop() calls of its session
  peerStartCalls,     \* start() calls of its session
  peerReplaceCalls,   \* update_access_code calls of its session
  peerExpirySeen      \* expires_at its is_code_expired() found passed

vars ==
  << now, store, running, pc, caller, bootsLeft, current_date, month_year,
     new_code, is_expired, unlimited_attempts, attempts, result, msg,
     hadRecord, stopCalls, startCalls, startOk, replaceCalls, replaceOk,
     runningAfterStop, checkedAt, expirySeen, codeSeen, entered_code,
     stopOk, gateBlocked, access_attempts,
     access_codes_history, fnName, fnArgs, fnResult, peerPc, peerCaller,
     peerUnlimited, peerAttempts, peerResult, peerStopCalls, peerStartCalls,
     peerReplaceCalls, peerExpirySeen >>

\* an empty table, an unset local, a call that has not returned
NoRecord == {}
NoValue == << >>
None == "None"

\* str(bool)
Bool(b) == IF b THEN "True" ELSE "False"

sessionVars ==
  << is_expired, unlimited_attempts, attempts, result, msg, hadRecord,
     stopCalls, startCalls, startOk, replaceCalls, replaceOk,
     runningAfterStop >>

\* what is_code_expired() compared in the running session
checkVars == << checkedAt, expirySeen, codeSeen >>

\* what the running session entered and got from stop(), and what the
\* sessions so far left of the service
traceVars == << entered_code, stopOk, gateBlocked >>

localVars == << current_date, month_year, new_code >>

\* the audit tables of access_codes.db
auditVars == << access_attempts, access_codes_history >>

\* the variables of the function-level runs
fnVars == << fnName, fnArgs, fnResult >>

\* the session of the second instance
peerVars ==
  << peerPc, peerCaller, peerUnlimited, peerAttempts, peerResult,
     peerStopCalls, peerStartCalls, peerReplaceCalls, peerExpirySeen >>

programVars ==
  << now, store, running, pc, caller, bootsLeft, localVars, sessionVars,
     checkVars, traceVars, auditVars, peerVars >>

InitProgram ==
  /\ now = << MonthAt(0)[1], MonthAt(0)[2], 15, 12, 0, 0 >>
  /\ store = NoRecord
  /\ running \in BOOLEAN
  /\ pc = "off"
  /\ caller = None
  /\ bootsLeft = 0
  /\ current_date = NoValue
  /\ month_year = NoValue
  /\ new_code = NoValue
  /\ is_expired = None
  /\ unlimited_attempts = FALSE
  /\ attempts = 0
  /\ result = None
  /\ msg = None
  /\ hadRecord = FALSE
  /\ stopCalls = 0
  /\ startCalls = 0
  /\ startOk = None
  /\ replaceCalls = 0
  /\ replaceOk = None
  /\ runningAfterStop = None
  /\ checkedAt = NoValue
  /\ expirySeen = NoValue
  /\ codeSeen = NoValue
  /\ entered_code = NoValue
  /\ stopOk = None
  /\ gateBlocked = FALSE
  /\ access_attempts = << >>
  /\ access_codes_history = << >>
  /\ peerPc = "off"
  /\ peerCaller = None
  /\ peerUnlimited = FALSE
  /\ peerAttempts = 0
  /\ peerResult = None
  /\ peerStopCalls = 0
  /\ peerStartCalls = 0
  /\ peerReplaceCalls = 0
  /\ peerExpirySeen = NoValue

Init ==
  /\ InitProgram
  /\ fnName = None
  /\ fnArgs = NoValue
  /\ fnResult = NoValue

(***************************************************************************)
(* The Store (DatabaseManager)                                             *)
(***************************************************************************)
\* get_current_access_code(): the rows with id = 1 and is_active = 1 (one
\* or none); none also when the read raises
get_current_access_code(st, readOk) ==
  IF readOk
    THEN { [code |-> r.code, month_year |-> r.month_year,
            expires_at |-> strptime(r.expires_at)]
        : r \in { q \in st : q.is_active = 1 } }
    ELSE {}

\* the row a non-empty result holds
TheRow(rows) == CHOOSE r \in rows : TRUE

\* a variant that writes the row when the table holds none
update_access_code_Upsert(st, code, period, expires_at, dbOk) ==
  IF ~dbOk THEN << st, FALSE >>
  ELSE << { [code |-> code, month_year |-> period,
             expires_at |-> adapt_datetime(expires_at), is_active |-> 1] },
          TRUE >>

\* update_access_code(): UPDATE ... WHERE id = 1; <<table, return value>>
update_access_code(st, code, period, expires_at, dbOk) ==
  IF ~dbOk THEN << st, FALSE >>
  ELSE << { [r EXCEPT !.code = code, !.month_year = period,
                      !.expires_at = adapt_datetime(expires_at)] : r \in st },
          TRUE >>

\* the INSERT OR REPLACE of _ensure_main_database; <<table, return value>>
insert_or_replace(st, code, period, expires_at, dbOk) ==
  IF ~dbOk THEN << st, FALSE >>
  ELSE << { [code |-> code, month_year |-> period,
             expires_at |-> adapt_datetime(expires_at), is_active |-> 1] },
          TRUE >>

(***************************************************************************)
(* The Service Controller (AsteriskManager)                                *)
(***************************************************************************)
\* what a service command can do: exit 0 and the expected state is observed,
\* exit 0 and the expected state is never observed in the ten polls, exit
\* non-zero, or the command times out
ServiceOutcomes == {"observed", "not_observed", "failed", "timeout"}

\* AsteriskManager.start(): <<return value, service state afterwards>>
start(isRunning, outcome) ==
  CASE outcome = "observed" -> << TRUE, TRUE >>
    [] outcome = "not_observed" -> << TRUE, FALSE >>
    [] outcome = "failed" -> << FALSE, isRunning >>
    [] outcome = "timeout" -> << FALSE, isRunning >>

\* AsteriskManager.stop(): <<return value, service state afterwards>>
stop(isRunning, outcome) ==
  CASE outcome = "observed" -> << TRUE, FALSE >>
    [] outcome = "not_observed" -> << TRUE, TRUE >>
    [] outcome = "failed" -> << FALSE, isRunning >>
    [] outcome = "timeout" -> << FALSE, isRunning >>

(***************************************************************************)
(* HiddenAccessCodeManager                                                 *)
(***************************************************************************)
\* variant: the entry is compared with the code the session read at its
\* expiry test
validate_code_FromCheck(st, input_code, readOk) ==
  IF codeSeen = NoValue THEN FALSE ELSE input_code = codeSeen

\* validate_code(input_code) against the row read now
validate_code(st, input_code, readOk) ==
  LET expected_code_data == get_current_access_code(st, readOk)
  IN IF expected_code_data = {} THEN FALSE
     ELSE input_code = TheRow(expected_code_data).code

\* variant: the record is expired from its expiry instant on
is_code_expired_AtOrAfter(st, t, readOk) ==
  LET code_data == get_current_access_code(st, readOk)
  IN IF code_data = {} THEN TRUE
     ELSE ~After(TheRow(code_data).expires_at, t)

\* is_code_expired() at clock value t
is_code_expired(st, t, readOk) ==
  LET code_data == get_current_access_code(st, readOk)
  IN IF code_data = {} THEN TRUE
     ELSE After(t, TheRow(code_data).expires_at)

(***************************************************************************)
(* Operator input                                                          *)
(***************************************************************************)
\* the codes of the months of the clock window
CodesOfWindow ==
  { generate_deterministic_code(
      FormatPeriod(<< MonthAt(k)[1], MonthAt(k)[2], 1, 0, 0, 0 >>), CodeLength)
    : k \in 0..MonthsHorizon }

\* what the operator may type at "Code d'acces: ": a code of the window as
\* issued, the same in lower case between blanks, the same without its first
\* character, a code never issued, or nothing
RawEntries ==
  CodesOfWindow
  \cup { << " " >> \o Lower(c) \o << " " >> : c \in CodesOfWindow }
  \cup { Tail(c) : c \in CodesOfWindow }
  \cup { << "A","1","B","2","C","3","D","4" >>, << >> }

(***************************************************************************)
(* Environment                                                             *)
(***************************************************************************)
\* the instant of the window that follows t
NextInstant(t) ==
  CHOOSE u \in Instants :
    After(u, t) /\ \A v \in Instants : After(v, t) => ~After(u, v)

\* time passes, to the next instant of the window
Tick ==
  /\ \E t \in Instants : After(t, now)
  /\ now' = NextInstant(now)
  /\ UNCHANGED << store, running, pc, caller, bootsLeft, localVars, sessionVars >>
  /\ UNCHANGED << checkVars, auditVars, fnVars, peerVars, traceVars >>

(***************************************************************************)
(* main() and DatabaseManager._ensure_main_database                        *)
(***************************************************************************)
\* main(): ensure_all_databases(), then CompleteMenuManager() whose two
\* UserManager objects call _ensure_main_database again, then main_menu()
StartProgram ==
  /\ pc = "off"
  /\ pc' = "boot_date"
  /\ bootsLeft' = 3
  /\ caller' = None
  /\ result' = None
  /\ UNCHANGED << now, store, running, localVars, is_expired,
                  unlimited_attempts, attempts, msg, hadRecord, stopCalls,
                  startCalls, startOk, replaceCalls, replaceOk,
                  runningAfterStop >>
  /\ UNCHANGED << checkVars, auditVars, fnVars, peerVars, traceVars >>

\* _ensure_main_database, lines 170-171: current_date and month_year
BootReadDate ==
  /\ pc = "boot_date"
  /\ current_date' = now
  /\ month_year' = FormatPeriod(now)
  /\ pc' = "boot_code"
  /\ UNCHANGED << now, store, running, caller, bootsLeft, new_code, sessionVars >>
  /\ UNCHANGED << checkVars, auditVars, fnVars, peerVars, traceVars >>

\* _ensure_main_database, lines 173-174: get_current_code() reads the clock
BootReadCode ==
  /\ pc = "boot_code"
  /\ new_code' = get_current_code(now)
  /\ pc' = "boot_insert"
  /\ UNCHANGED << now, store, running, caller, bootsLeft, current_date,
                  month_year, sessionVars >>
  /\ UNCHANGED << checkVars, auditVars, fnVars, peerVars, traceVars >>

\* _ensure_main_database, lines 176-200: expiry, INSERT OR REPLACE, commit
BootInsert(dbOk) ==
  /\ pc = "boot_insert"
  /\ store' = insert_or_replace(store, new_code, month_year,
                                ExpiryFromDate(current_date), dbOk)[1]
  /\ bootsLeft' = bootsLeft - 1
  /\ pc' = IF bootsLeft' = 0 THEN "check" ELSE "boot_date"
  /\ caller' = IF bootsLeft' = 0 THEN "initial" ELSE caller
  /\ current_date' = NoValue
  /\ month_year' = NoValue
  /\ new_code' = NoValue
  /\ UNCHANGED << now, running, sessionVars >>
  /\ UNCHANGED << checkVars, auditVars, fnVars, peerVars, traceVars >>

(***************************************************************************)
(* AccessValidator                                                         *)
(***************************************************************************)
\* the value check_and_validate_access returns, as a session state
Outcome(ret) == IF ret THEN "GRANTED" ELSE "DENIED"

\* variant: the limited loop allows one attempt more
AttemptBound_OneMore(unlimited) ==
  IF unlimited THEN unlimited_max ELSE max_attempts + 1

\* _prompt_for_code, line 972
AttemptBound(unlimited) == IF unlimited THEN unlimited_max ELSE max_attempts

\* variant: start() is called on every match
StartsOnMatch_Always(unlimited) == TRUE

\* _prompt_for_code, line 982: start() is called on a match in expired mode
StartsOnMatch(unlimited) == unlimited

\* variant: a failed start() refuses the access
match_return_NeedsStart(unlimited, startRet) == (~unlimited) \/ startRet

\* _prompt_for_code, line 990: the value returned after a match
match_return(unlimited, startRet) == TRUE

\* variant: an interrupted prompt lets the operator in
interrupt_return_True == TRUE

\* _prompt_for_code, line 1001: the value returned on KeyboardInterrupt
interrupt_return == FALSE

\* check_and_validate_access: is_code_expired() chooses the path;
\* _validate_current_code reads the row again before prompting
CheckAccess(readOk1, readOk2) ==
  /\ pc = "check"
  /\ LET expired == is_code_expired(store, now, readOk1)
         code_data == get_current_access_code(store, readOk2)
     IN /\ is_expired' = Bool(expired)
        /\ IF expired
             THEN /\ pc' = "h_stop"
                  /\ result' = None
                  /\ msg' = "expired"
             ELSE IF code_data = {}
               THEN /\ pc' = "done"
                    /\ result' = Outcome(FALSE)
                    /\ msg' = "no_code"
               ELSE /\ pc' = "prompt"
                    /\ result' = None
                    /\ msg' = "enter_code"
  /\ hadRecord' = (store # NoRecord)
  /\ unlimited_attempts' = FALSE
  /\ attempts' = 0
  /\ stopCalls' = 0
  /\ startCalls' = 0
  /\ startOk' = None
  /\ replaceCalls' = 0
  /\ replaceOk' = None
  /\ runningAfterStop' = None
  /\ checkedAt' = now
  /\ expirySeen' =
       IF get_current_access_code(store, readOk1) = {} THEN NoValue
       ELSE TheRow(get_current_access_code(store, readOk1)).expires_at
  /\ codeSeen' =
       IF get_current_access_code(store, readOk1) = {} THEN NoValue
       ELSE TheRow(get_current_access_code(store, readOk1)).code
  /\ entered_code' = NoValue
  /\ stopOk' = None
  /\ UNCHANGED << now, store, running, caller, bootsLeft, localVars >>
  /\ UNCHANGED << auditVars, fnVars, peerVars, gateBlocked >>

\* _handle_expired_code, line 928: stop the service, result ignored
HandleStop(outcome) ==
  /\ pc = "h_stop"
  /\ running' = stop(running, outcome)[2]
  /\ runningAfterStop' = Bool(stop(running, outcome)[2])
  /\ stopOk' = Bool(stop(running, outcome)[1])
  /\ gateBlocked' = (gateBlocked \/ (running /\ ~stop(running, outcome)[2]))
  /\ stopCalls' = stopCalls + 1
  /\ pc' = "h_date"
  /\ UNCHANGED << now, store, caller, bootsLeft, localVars, is_expired,
                  unlimited_attempts, attempts, result, msg, hadRecord,
                  startCalls, startOk, replaceCalls, replaceOk >>
  /\ checkedAt' = NoValue
  /\ UNCHANGED << expirySeen, codeSeen, auditVars, fnVars, peerVars,
                  entered_code >>

\* _handle_expired_code, line 931: current_date = datetime.now()
HandleReadDate ==
  /\ pc = "h_date"
  /\ current_date' = now
  /\ pc' = "h_period"
  /\ UNCHANGED << now, store, running, caller, bootsLeft, month_year, new_code,
                  sessionVars >>
  /\ UNCHANGED << checkVars, auditVars, fnVars, peerVars, traceVars >>

\* _handle_expired_code, line 932: month_year = get_current_period()
HandleReadPeriod ==
  /\ pc = "h_period"
  /\ month_year' = get_current_period(now)
  /\ pc' = "h_code"
  /\ UNCHANGED << now, store, running, caller, bootsLeft, current_date,
                  new_code, sessionVars >>
  /\ UNCHANGED << checkVars, auditVars, fnVars, peerVars, traceVars >>

\* _handle_expired_code, line 933: new_code = get_current_code()
HandleReadCode ==
  /\ pc = "h_code"
  /\ new_code' = get_current_code(now)
  /\ pc' = "h_update"
  /\ UNCHANGED << now, store, running, caller, bootsLeft, current_date,
                  month_year, sessionVars >>
  /\ UNCHANGED << checkVars, auditVars, fnVars, peerVars, traceVars >>

\* _handle_expired_code, lines 935-950: expiry, update_access_code (result
\* ignored), then _prompt_for_code(unlimited_attempts=True)
HandleUpdate(dbOk) ==
  /\ pc = "h_update"
  /\ LET upd == update_access_code(store, new_code, month_year,
                                   ExpiryFromDate(current_date), dbOk)
     IN /\ store' = upd[1]
        /\ replaceOk' = Bool(upd[2])
  /\ replaceCalls' = replaceCalls + 1
  /\ unlimited_attempts' = TRUE
  /\ attempts' = 0
  /\ msg' = "enter_new_code"
  /\ pc' = "prompt"
  /\ current_date' = NoValue    \* read again only by the message of line 946
  /\ UNCHANGED << now, running, caller, bootsLeft, month_year, new_code,
                  is_expired, result, hadRecord, stopCalls, startCalls,
                  startOk, runningAfterStop >>
  /\ UNCHANGED << checkVars, auditVars, fnVars, peerVars, traceVars >>

\* one turn of the loop of _prompt_for_code: read an entry, normalise it,
\* validate it against the row read now, start the service on a match in
\* expired mode, count the attempt on a mismatch
EnterCode(raw, readOk, outcome) ==
  /\ pc = "prompt"
  /\ attempts < AttemptBound(unlimited_attempts)
  /\ attempts' = attempts + 1
  /\ LET max == AttemptBound(unlimited_attempts)
     IN IF validate_code(store, NormalizeEntry(raw), readOk)
          THEN /\ IF StartsOnMatch(unlimited_attempts)
                    THEN /\ running' = start(running, outcome)[2]
                         /\ gateBlocked' = FALSE
                         /\ startCalls' = startCalls + 1
                         /\ startOk' = Bool(start(running, outcome)[1])
                         /\ result' =
                              Outcome(match_return(unlimited_attempts,
                                                   start(running, outcome)[1]))
                         /\ msg' = IF start(running, outcome)[1]
                                     THEN "restarted" ELSE "restart_error"
                    ELSE /\ outcome = "observed"
                         /\ result' = Outcome(match_return(unlimited_attempts, TRUE))
                         /\ msg' = "correct"
                         /\ UNCHANGED << running, startCalls, startOk,
                                         gateBlocked >>
               /\ pc' = "done"
          ELSE /\ outcome = "observed"
               /\ UNCHANGED << running, startCalls, startOk, gateBlocked >>
               /\ IF max - attempts' > 0
                    THEN /\ msg' = "incorrect"
                         /\ result' = result
                         /\ pc' = "prompt"
                    ELSE /\ msg' = "too_many"
                         /\ result' = Outcome(FALSE)
                         /\ pc' = "done"
  /\ entered_code' = IF pc' = "done" THEN NormalizeEntry(raw) ELSE NoValue
  /\ UNCHANGED << now, store, caller, bootsLeft, localVars, is_expired,
                  unlimited_attempts, hadRecord, stopCalls, replaceCalls,
                  replaceOk, runningAfterStop >>
  /\ checkedAt' = NoValue
  /\ stopOk' = None
  /\ UNCHANGED << expirySeen, codeSeen, auditVars, fnVars, peerVars >>

\* a variant where leaving the prompt removes the stored record
Interrupt_ClearsRecord ==
  /\ pc = "prompt"
  /\ attempts < AttemptBound(unlimited_attempts)
  /\ msg' = "cancelled"
  /\ result' = Outcome(interrupt_return)
  /\ pc' = "done"
  /\ store' = NoRecord
  /\ UNCHANGED << now, running, caller, bootsLeft, localVars,
                  is_expired, unlimited_attempts, attempts, hadRecord,
                  stopCalls, startCalls, startOk, replaceCalls, replaceOk,
                  runningAfterStop >>
  /\ UNCHANGED << checkVars, auditVars, fnVars, peerVars, traceVars >>

\* the operator interrupts the blocking read of _prompt_for_code
\* (KeyboardInterrupt raised by getpass, lines 999-1001)
Interrupt ==
  /\ pc = "prompt"
  /\ attempts < AttemptBound(unlimited_attempts)
  /\ msg' = "cancelled"
  /\ result' = Outcome(interrupt_return)
  /\ pc' = "done"
  /\ UNCHANGED << now, store, running, caller, bootsLeft, localVars,
                  is_expired, unlimited_attempts, attempts, hadRecord,
                  stopCalls, startCalls, startOk, replaceCalls, replaceOk,
                  runningAfterStop >>
  /\ checkedAt' = NoValue
  /\ stopOk' = None
  /\ UNCHANGED << expirySeen, codeSeen, auditVars, fnVars, peerVars,
                  entered_code, gateBlocked >>

(***************************************************************************)
(* CompleteMenuManager                                                     *)
(***************************************************************************)
\* main_menu: the first check exits the program when refused (line 1236);
\* a refused revalidation goes back to the menu (lines 1282-1284). Only the
\* value check_and_validate_access returned outlives the call.
ReturnToCaller ==
  /\ pc = "done"
  /\ pc' = IF caller = "initial" /\ result # "GRANTED" THEN "off" ELSE "menu"
  /\ current_date' = NoValue
  /\ month_year' = NoValue
  /\ new_code' = NoValue
  /\ checkedAt' = NoValue
  /\ expirySeen' = NoValue
  /\ codeSeen' = NoValue
  /\ entered_code' = NoValue
  /\ stopOk' = None
  /\ is_expired' = None
  /\ unlimited_attempts' = FALSE
  /\ attempts' = 0
  /\ msg' = None
  /\ hadRecord' = FALSE
  /\ stopCalls' = 0
  /\ startCalls' = 0
  /\ startOk' = None
  /\ replaceCalls' = 0
  /\ replaceOk' = None
  /\ runningAfterStop' = None
  /\ UNCHANGED << now, store, running, caller, bootsLeft, result >>
  /\ UNCHANGED << auditVars, fnVars, peerVars, gateBlocked >>

\* main_menu, choice 9
MenuRevalidate ==
  /\ pc = "menu"
  /\ pc' = "check"
  /\ caller' = "revalidate"
  /\ UNCHANGED << now, store, running, bootsLeft, localVars, sessionVars >>
  /\ UNCHANGED << checkVars, auditVars, fnVars, peerVars, traceVars >>

\* main_menu, choice 0
MenuQuit ==
  /\ pc = "menu"
  /\ pc' = "off"
  /\ UNCHANGED << now, store, running, caller, bootsLeft, localVars, sessionVars >>
  /\ UNCHANGED << checkVars, auditVars, fnVars, peerVars, traceVars >>

\* asterisk_control_menu, choices 1 and 2
MenuServiceControl(outcome) ==
  /\ pc = "menu"
  /\ running' \in {start(running, outcome)[2], stop(running, outcome)[2]}
  /\ gateBlocked' = (gateBlocked /\ ~running')
  /\ UNCHANGED << now, store, pc, caller, bootsLeft, localVars, sessionVars >>
  /\ UNCHANGED << checkVars, auditVars, fnVars, peerVars, entered_code,
                  stopOk >>

\* regenerate_code, line 1512: current_date = datetime.now()
RegenerateReadDate ==
  /\ pc = "menu"
  /\ current_date' = now
  /\ pc' = "r_period"
  /\ UNCHANGED << now, store, running, caller, bootsLeft, month_year, new_code,
                  sessionVars >>
  /\ UNCHANGED << checkVars, auditVars, fnVars, peerVars, traceVars >>

\* regenerate_code, lines 1513-1514: the period, and the code of that period
RegenerateReadPeriod ==
  /\ pc = "r_period"
  /\ month_year' = get_current_period(now)
  /\ new_code' = generate_deterministic_code(get_current_period(now), CodeLength)
  /\ pc' = "r_update"
  /\ UNCHANGED << now, store, running, caller, bootsLeft, current_date,
                  sessionVars >>
  /\ UNCHANGED << checkVars, auditVars, fnVars, peerVars, traceVars >>

\* regenerate_code, lines 1516-1531: expiry and update_access_code
RegenerateUpdate(dbOk) ==
  /\ pc = "r_update"
  /\ store' = update_access_code(store, new_code, month_year,
                                 ExpiryFromDate(current_date), dbOk)[1]
  /\ current_date' = NoValue
  /\ month_year' = NoValue
  /\ new_code' = NoValue
  /\ pc' = "menu"
  /\ UNCHANGED << now, running, caller, bootsLeft, sessionVars >>
  /\ UNCHANGED << checkVars, auditVars, fnVars, peerVars, traceVars >>

(***************************************************************************)
(* A second instance of the program, on the same database and service     *)
(***************************************************************************)
\* what belongs to the first instance alone
firstVars ==
  << pc, caller, bootsLeft, localVars, sessionVars, checkVars, traceVars,
     auditVars, fnVars >>

\* main() of the second instance: the three _ensure_main_database calls,
\* then the first access check
PeerStart ==
  /\ peerPc = "off"
  /\ store' = insert_or_replace(store, get_current_code(now),
                                get_current_period(now), ExpiryFromDate(now),
                                TRUE)[1]
  /\ peerPc' = "check"
  /\ peerCaller' = "initial"
  /\ UNCHANGED << now, running, firstVars, peerUnlimited, peerAttempts,
                  peerResult, peerStopCalls, peerStartCalls, peerReplaceCalls,
                  peerExpirySeen >>

\* check_and_validate_access of the second instance
PeerCheckAccess ==
  /\ peerPc = "check"
  /\ LET expired == is_code_expired(store, now, TRUE)
         code_data == get_current_access_code(store, TRUE)
     IN /\ peerPc' = IF expired THEN "h_stop"
                     ELSE IF code_data = {} THEN "done" ELSE "prompt"
        /\ peerResult' = IF ~expired /\ code_data = {}
                           THEN Outcome(FALSE) ELSE None
        /\ peerExpirySeen' = IF expired /\ code_data # {}
                               THEN TheRow(code_data).expires_at ELSE NoValue
  /\ peerUnlimited' = FALSE
  /\ peerAttempts' = 0
  /\ peerStopCalls' = 0
  /\ peerStartCalls' = 0
  /\ peerReplaceCalls' = 0
  /\ UNCHANGED << now, store, running, firstVars, peerCaller >>

\* _handle_expired_code of the second instance, line 928
PeerHandleStop(outcome) ==
  /\ peerPc = "h_stop"
  /\ running' = stop(running, outcome)[2]
  /\ peerStopCalls' = peerStopCalls + 1
  /\ peerPc' = "h_update"
  /\ UNCHANGED << now, store, firstVars, peerCaller, peerUnlimited,
                  peerAttempts, peerResult, peerStartCalls, peerReplaceCalls,
                  peerExpirySeen >>

\* _handle_expired_code of the second instance, lines 931-950, with its
\* three clock reads at one clock value
PeerHandleUpdate(dbOk) ==
  /\ peerPc = "h_update"
  /\ store' = update_access_code(store, get_current_code(now),
                                 get_current_period(now), ExpiryFromDate(now),
                                 dbOk)[1]
  /\ peerReplaceCalls' = peerReplaceCalls + 1
  /\ peerUnlimited' = TRUE
  /\ peerAttempts' = 0
  /\ peerPc' = "prompt"
  /\ UNCHANGED << now, running, firstVars, peerCaller, peerResult,
                  peerStopCalls, peerStartCalls, peerExpirySeen >>

\* one turn of the loop of _prompt_for_code in the second instance
PeerEnterCode(raw, outcome) ==
  /\ peerPc = "prompt"
  /\ peerAttempts < AttemptBound(peerUnlimited)
  /\ peerAttempts' = peerAttempts + 1
  /\ IF validate_code(store, NormalizeEntry(raw), TRUE)
       THEN /\ IF StartsOnMatch(peerUnlimited)
                 THEN /\ running' = start(running, outcome)[2]
                      /\ peerStartCalls' = peerStartCalls + 1
                      /\ peerResult' =
                           Outcome(match_return(peerUnlimited,
                                                start(running, outcome)[1]))
                 ELSE /\ peerResult' = Outcome(match_return(peerUnlimited, TRUE))
                      /\ UNCHANGED << running, peerStartCalls >>
            /\ peerPc' = "done"
       ELSE /\ UNCHANGED << running, peerStartCalls >>
            /\ IF AttemptBound(peerUnlimited) - peerAttempts' > 0
                 THEN /\ peerResult' = peerResult
                      /\ peerPc' = "prompt"
                 ELSE /\ peerResult' = Outcome(FALSE)
                      /\ peerPc' = "done"
  /\ UNCHANGED << now, store, firstVars, peerCaller, peerUnlimited,
                  peerStopCalls, peerReplaceCalls, peerExpirySeen >>

\* the operator of the second instance interrupts the prompt
PeerInterrupt ==
  /\ peerPc = "prompt"
  /\ peerAttempts < AttemptBound(peerUnlimited)
  /\ peerResult' = Outcome(interrupt_return)
  /\ peerPc' = "done"
  /\ UNCHANGED << now, store, running, firstVars, peerCaller, peerUnlimited,
                  peerAttempts, peerStopCalls, peerStartCalls,
                  peerReplaceCalls, peerExpirySeen >>

\* main_menu of the second instance: a refused first check ends it, any
\* other result shows its menu
PeerReturnToCaller ==
  /\ peerPc = "done"
  /\ peerPc' = IF peerCaller = "initial" /\ peerResult # "GRANTED"
                 THEN "off" ELSE "menu"
  /\ peerExpirySeen' = NoValue
  /\ UNCHANGED << now, store, running, firstVars, peerCaller, peerUnlimited,
                  peerAttempts, peerResult, peerStopCalls, peerStartCalls,
                  peerReplaceCalls >>

\* main_menu of the second instance, choice 9
PeerMenuRevalidate ==
  /\ peerPc = "menu"
  /\ peerPc' = "check"
  /\ peerCaller' = "revalidate"
  /\ UNCHANGED << now, store, running, firstVars, peerUnlimited, peerAttempts,
                  peerResult, peerStopCalls, peerStartCalls, peerReplaceCalls,
                  peerExpirySeen >>

(***************************************************************************)
(* The functions of the program called on their own                        *)
(***************************************************************************)
\* the years of the dates passed as current_date: leap years, century years
\* that are and are not leap years, ordinary years
YearsChecked == {1900, 2000, 2023, 2024, 2025, 2100}

\* values of datetime.now() passed to the end-of-month computation
DatesChecked ==
  { << y, m, d[1], d[2], d[3], d[4] >> :
      y \in YearsChecked, m \in 1..12,
      d \in { << 1, 0, 0, 0 >>, << 28, 12, 30, 45 >> } }

\* lines 935-941 (and 176-182, 844-850, 1516-1522) for current_date = fnArgs
CallExpiry ==
  /\ fnName = "expires_at"
  /\ fnResult = NoValue
  /\ fnResult' = << ExpiryFromDate(fnArgs) >>
  /\ UNCHANGED << programVars, fnName, fnArgs >>

\* digests passed to the derivation loop: those of the periods of the clock
\* window, and 32-byte values with bytes at and near 255
DigestsChecked ==
  { Digest(FormatPeriod(<< MonthAt(k)[1], MonthAt(k)[2], 1, 0, 0, 0 >>))
      : k \in 0..MonthsHorizon }
  \cup { [k \in 1..32 |-> 255], [k \in 1..32 |-> 0],
         [k \in 1..32 |-> 224 + k - 1] }

\* lines 816-824: the loop over range(length) on hash_bytes
CallCodeFromDigest ==
  /\ fnName = "code_chars"
  /\ fnResult = NoValue
  /\ fnResult' = << CodeFromDigest(fnArgs[1], fnArgs[2]) >>
  /\ UNCHANGED << programVars, fnName, fnArgs >>

\* period strings passed to the two generators: the months of the clock
\* window, the month before it and the month after it
PeriodsChecked ==
  { FormatPeriod(<< MonthAt(k)[1], MonthAt(k)[2], 1, 0, 0, 0 >>)
      : k \in (0 - 1)..(MonthsHorizon + 1) }

\* codegenerator.generate_code and the server's generator called with the
\* same argument at the same clock value (<< >>: no argument, the server
\* side then being get_current_code()); the clock value is kept with the
\* two results
CallGenerators ==
  /\ fnName = "generate_code"
  /\ fnResult = NoValue
  /\ fnResult' =
       << generate_code(fnArgs, now),
          IF fnArgs = << >> THEN get_current_code(now)
          ELSE generate_deterministic_code(fnArgs, CodeLength),
          now >>
  /\ UNCHANGED << programVars, fnName, fnArgs >>

\* codes held by the row the entry is compared with
StoredChecked ==
  { << "A","1","B","2","C","3","D","4" >>,
    << "1","2","C","O","Y","0","W","9" >> }

\* entries typed at the prompt: those of RawEntries, and a code in upper and
\* lower case with blanks and tabs around it, with a blank inside, with a
\* character changed, missing or added, and blanks alone
EntriesChecked ==
  RawEntries
  \cup { << " ","a","1","b","2","c","3","d","4"," " >>,
         << "a","1","b","2","c","3","d","4" >>,
         << "A","1","b","2","C","3","d","4" >>,
         << "\t","A","1","B","2","C","3","D","4"," "," " >>,
         << " "," ","A","1","B","2","C","3","D","4" >>,
         << "A","1","B","2"," ","C","3","D","4" >>,
         << " ","a","1","b","2","c","3","d","5"," " >>,
         << "A","1","B","2","C","3","D" >>,
         << "A","1","B","2","C","3","D","4","4" >>,
         << "1","2","c","o","y","0","w","9","\t" >>,
         << "1","2","C","0","Y","0","W","9" >>,
         << " "," " >> }

\* the access_codes table holding the code
TableWithCode(code) ==
  insert_or_replace(NoRecord, code, << "1","2","-","2","0","2","4" >>,
                    << 2024, 12, 31, 23, 59, 59 >>, TRUE)[1]

\* _prompt_for_code, lines 976-979: the entry fnArgs[1] is stripped,
\* uppercased and passed to validate_code, which reads the row holding
\* fnArgs[2] (the read succeeds when fnArgs[3])
CallValidateEntry ==
  /\ fnName = "validate_code"
  /\ fnResult = NoValue
  /\ fnResult' =
       << validate_code(TableWithCode(fnArgs[2]), NormalizeEntry(fnArgs[1]),
                        fnArgs[3]) >>
  /\ UNCHANGED << programVars, fnName, fnArgs >>

(***************************************************************************)
(* Specifications                                                          *)
(***************************************************************************)
Next ==
  \/ Tick
  \/ StartProgram
  \/ BootReadDate
  \/ BootReadCode
  \/ \E dbOk \in BOOLEAN : BootInsert(dbOk)
  \/ \E readOk1 \in BOOLEAN, readOk2 \in BOOLEAN : CheckAccess(readOk1, readOk2)
  \/ \E outcome \in ServiceOutcomes : HandleStop(outcome)
  \/ HandleReadDate
  \/ HandleReadPeriod
  \/ HandleReadCode
  \/ \E dbOk \in BOOLEAN : HandleUpdate(dbOk)
  \/ \E raw \in RawEntries, readOk \in BOOLEAN, outcome \in ServiceOutcomes :
       attempts < MaxEntries /\ EnterCode(raw, readOk, outcome)
  \/ Interrupt
  \/ ReturnToCaller
  \/ MenuRevalidate
  \/ MenuQuit
  \/ \E outcome \in ServiceOutcomes : MenuServiceControl(outcome)
  \/ RegenerateReadDate
  \/ RegenerateReadPeriod
  \/ \E dbOk \in BOOLEAN : RegenerateUpdate(dbOk)

Spec == Init /\ [][Next]_vars

\* The same program with an operator who never tires of typing, so that the
\* loop of _prompt_for_code runs to its own bound.  To keep the run small
\* the database and the service commands do not fail, the clock moves only
\* between a bootstrap and a check and while the menu is shown, and the
\* operator uses the menu only to revalidate.
NextUnlimited ==
  \/ (pc \in {"check", "menu"} /\ Tick)
  \/ StartProgram
  \/ BootReadDate
  \/ BootReadCode
  \/ BootInsert(TRUE)
  \/ CheckAccess(TRUE, TRUE)
  \/ HandleStop("observed")
  \/ HandleReadDate
  \/ HandleReadPeriod
  \/ HandleReadCode
  \/ HandleUpdate(TRUE)
  \/ \E raw \in RawEntries : EnterCode(raw, TRUE, "observed")
  \/ Interrupt
  \/ ReturnToCaller
  \/ MenuRevalidate

SpecUnlimited == Init /\ [][NextUnlimited]_vars

\* Two instances of the program run by two operators on the same database
\* and the same service.  To keep the run small the database and the
\* service commands do not fail, the clock moves only while no regeneration
\* is under way, and each operator types a code of the window as issued.
NextTwoSessions ==
  \/ (/\ pc \in {"off", "check", "menu", "prompt"}
      /\ peerPc \in {"off", "check", "menu", "prompt"}
      /\ Tick)
  \/ StartProgram
  \/ BootReadDate
  \/ BootReadCode
  \/ BootInsert(TRUE)
  \/ CheckAccess(TRUE, TRUE)
  \/ HandleStop("observed")
  \/ HandleReadDate
  \/ HandleReadPeriod
  \/ HandleReadCode
  \/ HandleUpdate(TRUE)
  \/ \E raw \in CodesOfWindow :
       attempts < MaxEntries /\ EnterCode(raw, TRUE, "observed")
  \/ Interrupt
  \/ ReturnToCaller
  \/ MenuRevalidate
  \/ PeerStart
  \/ PeerCheckAccess
  \/ PeerHandleStop("observed")
  \/ PeerHandleUpdate(TRUE)
  \/ \E raw \in CodesOfWindow :
       peerAttempts < MaxEntries /\ PeerEnterCode(raw, "observed")
  \/ PeerInterrupt
  \/ PeerReturnToCaller
  \/ PeerMenuRevalidate

SpecTwoSessions == Init /\ [][NextTwoSessions]_vars

\* The functions called on their own, each on an argument drawn at the
\* start, while the clock runs.
InitFn ==
  /\ InitProgram
  /\ fnResult = NoValue
  /\ \/ fnName = "expires_at" /\ fnArgs \in DatesChecked
     \/ fnName = "code_chars" /\ fnArgs \in DigestsChecked \X (0..MaxLength)
     \/ fnName = "generate_code" /\ fnArgs \in PeriodsChecked \cup { << >> }
     \/ fnName = "validate_code"
          /\ fnArgs \in EntriesChecked \X StoredChecked \X BOOLEAN

NextFn ==
  \/ Tick
  \/ CallExpiry
  \/ CallCodeFromDigest
  \/ CallGenerators
  \/ CallValidateEntry

SpecFn == InitFn /\ [][NextFn]_vars

(***************************************************************************)
(* Properties                                                              *)
(***************************************************************************)
\* the states of the validator, read off the program position
InPrompt == pc = "prompt"
ValidPending == InPrompt /\ ~unlimited_attempts
ExpiredPending == InPrompt /\ unlimited_attempts
SessionOver == pc = "done"
Matched == msg \in {"correct", "restarted", "restart_error"}

\* C1: on the non-expired path a session compares at most three entries:
\* a further entry is read only while fewer than three were compared, and
\* three mismatches end the session DENIED with the exhaustion message.
C1_AttemptBound ==
  is_expired = "False" =>
    /\ attempts <= 3
    /\ (InPrompt => attempts < 3)
    /\ (attempts = 3 /\ ~Matched =>
          pc # "prompt" /\ result = "DENIED" /\ msg = "too_many")

C1_Witness ==
  /\ SessionOver
  /\ is_expired = "False"
  /\ attempts = 3
  /\ result = "DENIED"
  /\ msg = "too_many"

\* C2: in EXPIRED_PENDING_ENTRY a session is never refused because of the
\* number of mismatches: a session of the expired path that ends DENIED
\* was interrupted by the operator.
C2_UnboundedRetry ==
  (unlimited_attempts /\ result = "DENIED") => msg = "cancelled"

\* C3: a session that starts while the Store holds no record ends DENIED
\* from CHECKING with the configuration error: it never reaches the expiry
\* handling or a prompt, compares no entry, calls neither stop() nor
\* update_access_code.
C3_NoRecordDenied ==
  (is_expired # None /\ ~hadRecord) =>
    /\ pc \notin {"h_stop", "h_date", "h_period", "h_code", "h_update", "prompt"}
    /\ result = "DENIED"
    /\ msg = "no_code"
    /\ attempts = 0
    /\ stopCalls = 0
    /\ startCalls = 0
    /\ replaceCalls = 0

\* C4: when update_access_code fails during the expiry handling the session
\* is refused: no entry ends it GRANTED and it never calls start().
C4_FailClosed ==
  (/\ replaceOk = "False"
   /\ store # NoRecord
   /\ \A r \in store : After(now, strptime(r.expires_at))) =>
    /\ result # "GRANTED"
    /\ startCalls = 0
    /\ (SessionOver => result = "DENIED")

\* C5: the code of the stored record is the code derived from the period of
\* that same record.
C5_CodeMatchesPeriod ==
  \A r \in store :
    r.code = generate_deterministic_code(r.month_year, CodeLength)

\* C6: the expiry of the stored record is 23:59:59 on the last day of the
\* month named by the period of that same record.
C6_ExpiryMatchesPeriod ==
  \A r \in store :
    strptime(r.expires_at) =
      << PeriodYear(r.month_year), PeriodMonth(r.month_year),
         DaysInMonth(PeriodYear(r.month_year), PeriodMonth(r.month_year)),
         23, 59, 59 >>

\* C7: in a session that found the stored record expired, stop() is called
\* before update_access_code, which is called before the first prompt, and
\* from the update on the stored period is the period the session
\* regenerated for.
C7_StopReplacePrompt ==
  (hadRecord /\ is_expired = "True") =>
    /\ (pc = "h_stop" => stopCalls = 0 /\ replaceCalls = 0 /\ attempts = 0)
    /\ (pc \in {"h_date", "h_period", "h_code", "h_update"} =>
          stopCalls = 1 /\ replaceCalls = 0 /\ attempts = 0)
    /\ (pc = "prompt" =>
          /\ stopCalls = 1
          /\ replaceCalls = 1
          /\ \A r \in store : r.month_year = month_year)

C9_ValidPathNoService ==
  is_expired = "False" =>
    /\ stopCalls = 0
    /\ startCalls = 0
    /\ replaceCalls = 0
    /\ ~unlimited_attempts

C9_Witness ==
  /\ SessionOver
  /\ is_expired = "False"
  /\ attempts = 2
  /\ msg = "correct"
  /\ result = "GRANTED"
  /\ running

C11_AttemptsRecorded ==
  [][attempts' = attempts + 1 =>
       /\ Len(access_attempts') = Len(access_attempts) + 1
       /\ SubSeq(access_attempts', 1, Len(access_attempts)) = access_attempts
       /\ access_attempts'[Len(access_attempts')].success =
            (IF Matched' THEN 1 ELSE 0)]_vars

\* C12: every regeneration that writes the current record, in the expiry
\* handling or from the menu, appends one row (code, period) to
\* access_codes_history, and no step changes or removes a row of it.
C12_HistoryAppended ==
  [][/\ Len(access_codes_history') >= Len(access_codes_history)
     /\ SubSeq(access_codes_history', 1, Len(access_codes_history))
          = access_codes_history
     /\ (/\ pc \in {"h_update", "r_update"}
         /\ pc' # pc
         /\ \E r \in store' : r.code = new_code /\ r.month_year = month_year)
        => /\ Len(access_codes_history') = Len(access_codes_history) + 1
           /\ access_codes_history'[Len(access_codes_history')] =
                [code |-> new_code, month_year |-> month_year]]_vars

\* C13: start-up seeds the record only when the table holds none: a step of
\* _ensure_main_database taken while a record exists leaves the record as it
\* is, so a restart never replaces an expired record.
C13_SeedOnlyWhenAbsent ==
  [][(pc = "boot_insert" /\ store # NoRecord) => store' = store]_vars

\* C14: update_access_code is all or nothing and its return value tells
\* which: after True, get_current_access_code returns exactly the code, the
\* period and the expiry that were passed, in an active row; after False the
\* table is as it was.
C14_ReplaceTruthful ==
  [][(pc = "h_update" /\ pc' = "prompt") =>
       /\ replaceOk' = "True" =>
            get_current_access_code(store', TRUE) =
              { [code |-> new_code, month_year |-> month_year,
                 expires_at |-> ExpiryFromDate(current_date)] }
       /\ replaceOk' = "False" => store' = store]_vars

\* the handling of an expired code is under way or was taken in this session
OnExpiredPath ==
  \/ pc \in {"h_stop", "h_date", "h_period", "h_code", "h_update"}
  \/ unlimited_attempts

\* C15: is_code_expired is the strict comparison now > expires_at: a check
\* made at the expiry instant of the record read takes the non-expired path,
\* and a check made one second later takes the expired path.
C15_StrictExpiry ==
  expirySeen # NoValue =>
    /\ checkedAt = expirySeen =>
         (is_expired = "False" /\ ~OnExpiredPath)
    /\ checkedAt = PlusOneSecond(expirySeen) =>
         (is_expired = "True" /\ OnExpiredPath)

\* a check made at the very expiry instant opened the limited prompt
C15_Witness ==
  /\ expirySeen # NoValue
  /\ checkedAt = expirySeen
  /\ is_expired = "False"
  /\ pc = "prompt"
  /\ ~unlimited_attempts

\* C16: the expiry computed from a date is 23:59:59 on the last calendar day
\* of the month of that date, for every month and year: a date of December
\* gives 31 December of the same year, a date of February gives the 29th
\* in a leap year and the 28th otherwise.
C16_ExpiryEndOfMonth ==
  (fnName = "expires_at" /\ fnResult # NoValue) =>
    LET y == fnArgs[1]
        m == fnArgs[2]
        leap == (y % 4 = 0 /\ y % 100 # 0) \/ y % 400 = 0
        last == IF m = 2 THEN (IF leap THEN 29 ELSE 28)
                ELSE IF m \in {4, 6, 9, 11} THEN 30 ELSE 31
    IN /\ fnResult[1] = << y, m, last, 23, 59, 59 >>
       /\ (y = 2024 /\ m = 12) => fnResult[1] = << 2024, 12, 31, 23, 59, 59 >>
       /\ (y = 2025 /\ m = 1) => fnResult[1] = << 2025, 1, 31, 23, 59, 59 >>
       /\ (y = 2024 /\ m = 2) => fnResult[1] = << 2024, 2, 29, 23, 59, 59 >>
       /\ (y = 1900 /\ m = 2) => fnResult[1] = << 1900, 2, 28, 23, 59, 59 >>
       /\ (y = 2000 /\ m = 2) => fnResult[1] = << 2000, 2, 29, 23, 59, 59 >>

\* the expiry was computed for a date of December
C16_Witness ==
  /\ fnName = "expires_at"
  /\ fnArgs = << 2024, 12, 28, 12, 30, 45 >>
  /\ fnResult = << << 2024, 12, 31, 23, 59, 59 >> >>

\* C18: for every digest and every length the code has exactly length
\* characters, and its character at position i (from 0) is the character of
\* "ABCDEFGHIJKLMNOPQRSTUVWXYZ0123456789" at index
\* (digest[i mod digest_length] + i) mod 36, the sum being taken in the
\* integers and not in a byte.
C18_CodeCharacters ==
  (fnName = "code_chars" /\ fnResult # NoValue) =>
    LET digest == fnArgs[1]
        length == fnArgs[2]
        code == fnResult[1]
        alphabet ==
          << "A","B","C","D","E","F","G","H","I","J","K","L","M","N","O","P",
             "Q","R","S","T","U","V","W","X","Y","Z",
             "0","1","2","3","4","5","6","7","8","9" >>
    IN /\ Len(code) = length
       /\ \A i \in 0..(length - 1) :
            code[i + 1] =
              alphabet[((digest[(i % Len(digest)) + 1] + i) % 36) + 1]

\* a code longer than the digest, derived from bytes whose sum with the
\* position passes 255: 255 + 1 = 256 gives index 4 ("E"), and position 33
\* reads byte 1 again (255 + 33 = 288, index 0)
C18_Witness ==
  /\ fnName = "code_chars"
  /\ fnArgs = << [k \in 1..32 |-> 255], MaxLength >>
  /\ fnResult # NoValue
  /\ fnResult[1][2] = "E"
  /\ fnResult[1][34] = "A"

\* C19: the standalone generator and the server's generator return the same
\* code: for every period string generate_code(period) equals
\* generate_deterministic_code(period, 8), and called with no argument both
\* return the code of the period "MM-YYYY", month padded to two digits, of
\* the clock date of the call.
C19_SameGenerator ==
  (fnName = "generate_code" /\ fnResult # NoValue) =>
    LET standalone == fnResult[1]
        server == fnResult[2]
        month == fnResult[3][2]
        year == fnResult[3][1]
        digit == << "0","1","2","3","4","5","6","7","8","9" >>
        period ==
          IF fnArgs # << >> THEN fnArgs
          ELSE << digit[(month \div 10) + 1], digit[(month % 10) + 1], "-",
                  digit[(year \div 1000) + 1], digit[((year \div 100) % 10) + 1],
                  digit[((year \div 10) % 10) + 1], digit[(year % 10) + 1] >>
    IN /\ standalone = server
       /\ Len(standalone) = 8
       /\ server = generate_deterministic_code(period, 8)
       /\ period = << "1","2","-","2","0","2","4" >> =>
            standalone = << "1","2","C","O","Y","0","W","9" >>
       /\ period = << "0","1","-","2","0","2","5" >> =>
            standalone = << "D","U","V","N","G","X","I","1" >>

\* both generators were called with no argument in January 2025 and
\* returned the code of "01-2025"
C19_Witness ==
  /\ fnName = "generate_code"
  /\ fnArgs = << >>
  /\ fnResult # NoValue
  /\ fnResult[3][1] = 2025
  /\ fnResult[3][2] = 1
  /\ fnResult[1] = << "D","U","V","N","G","X","I","1" >>
  /\ fnResult[2] = << "D","U","V","N","G","X","I","1" >>

\* C20: an entry is accepted exactly when it is the stored code written in
\* upper or lower case letters with any blanks before and after it: the
\* entry is stripped and uppercased, then compared for equality with the
\* code of the row read. " a1b2c3d4 " is accepted against "A1B2C3D4".
C20_NormalizedEquality ==
  (fnName = "validate_code" /\ fnResult # NoValue /\ fnArgs[3]) =>
    LET raw == fnArgs[1]
        stored == fnArgs[2]
        accepted == fnResult[1]
        blank == {" ", "\t"}
        small == << "a","b","c","d","e","f","g","h","i","j","k","l","m",
                    "n","o","p","q","r","s","t","u","v","w","x","y","z" >>
        capital == << "A","B","C","D","E","F","G","H","I","J","K","L","M",
                      "N","O","P","Q","R","S","T","U","V","W","X","Y","Z" >>
        Same(c, d) ==
          IF \E k \in 1..26 : c = small[k]
            THEN \E k \in 1..26 : c = small[k] /\ d = capital[k]
            ELSE c = d
        normalEqual ==
          \E i \in 0..Len(raw) :
            /\ i + Len(stored) <= Len(raw)
            /\ \A k \in 1..i : raw[k] \in blank
            /\ \A k \in (i + Len(stored) + 1)..Len(raw) : raw[k] \in blank
            /\ \A k \in 1..Len(stored) : Same(raw[i + k], stored[k])
    IN /\ accepted = normalEqual
       /\ (/\ raw = << " ","a","1","b","2","c","3","d","4"," " >>
           /\ stored = << "A","1","B","2","C","3","D","4" >>) => accepted

\* " a1b2c3d4 " was entered against the stored code "A1B2C3D4" and accepted
C20_Witness ==
  /\ fnName = "validate_code"
  /\ fnArgs = << << " ","a","1","b","2","c","3","d","4"," " >>,
                 << "A","1","B","2","C","3","D","4" >>, TRUE >>
  /\ fnResult = << TRUE >>

\* C21: when two sessions run at the same time and both found the same
\* record expired, only one of them stops the service and regenerates, and
\* the service is not stopped twice or started twice for that expiry.
C21_ExclusiveRegeneration ==
  (/\ is_expired = "True"
   /\ expirySeen # NoValue
   /\ peerExpirySeen # NoValue
   /\ peerExpirySeen = expirySeen) =>
    /\ stopCalls + peerStopCalls <= 1
    /\ replaceCalls + peerReplaceCalls <= 1
    /\ startCalls + peerStartCalls <= 1

C23_StopFailureKeepsGate ==
  (stopOk = "False" /\ hadRecord /\ pc \in {"prompt", "done"}) =>
    /\ replaceCalls = 1
    /\ unlimited_attempts
    /\ \E r \in store : r.code = new_code /\ r.month_year = month_year
    /\ result = "GRANTED" => entered_code = new_code

\* C24: a service call is reported successful only on an observation:
\* start() returns True only when the service is running afterwards and
\* stop() returns True only when it is not running afterwards; a timeout or
\* a wait that never saw the expected state is returned as a failure.
C24_ServiceResultObserved ==
  [][/\ (startCalls' = startCalls + 1 /\ startOk' = "True") => running'
     /\ (stopCalls' = stopCalls + 1 /\ stopOk' = "True") => ~running']_vars

\* C25: when the validator stopped the service in an earlier check and no
\* start followed, the check that ends GRANTED calls start(): a granted
\* operator is not left with the service down because of the gate.
C25_RestartAfterGateStop ==
  (SessionOver /\ result = "GRANTED" /\ gateBlocked /\ ~running) =>
    startCalls >= 1

\* C26: an entry ends the session GRANTED only if the stored record is not
\* expired when the entry is compared: when the clock passes expires_at
\* while a session that found the code valid waits at the prompt, the code
\* of the record that has expired is refused.
C26_NoGrantOnExpiredRecord ==
  [][(/\ pc = "prompt"
      /\ is_expired = "False"
      /\ pc' = "done"
      /\ result' = "GRANTED") =>
       \A r \in store : ~After(now, strptime(r.expires_at))]_vars

\* C27: after a revalidation asked from the menu ended DENIED, the operator
\* performs no administrative action (the service is not started, the code
\* is not regenerated) until a later access check ends GRANTED.
C27_DeniedRevalidationLocksMenu ==
  [][(/\ pc \in {"menu", "r_period", "r_update"}
      /\ caller = "revalidate"
      /\ result = "DENIED") =>
       /\ running' => running
       /\ store' = store
       /\ pc' \in {"menu", "check", "off"}]_vars

\* C28: while the table holds no current record, or the read of it fails,
\* no entry ends the session GRANTED and the validator never starts the
\* service; the update of the expiry path does not create the missing row.
C28_NoRecordNoGrant ==
  [][/\ (/\ store = NoRecord
         /\ pc \in {"check", "h_stop", "h_date", "h_period", "h_code",
                    "h_update", "prompt"}) =>
          /\ store' = NoRecord
          /\ result' # "GRANTED"
          /\ startCalls' = startCalls
     /\ (pc = "prompt" /\ (result' = "GRANTED" \/ startCalls' # startCalls)) =>
          \A raw \in RawEntries, outcome \in ServiceOutcomes :
            ~EnterCode(raw, FALSE, outcome)]_vars

\* an expiry-path prompt on an empty table, after an update that succeeded
\* and two refused entries
C28_Witness ==
  /\ store = NoRecord
  /\ pc = "prompt"
  /\ unlimited_attempts
  /\ replaceCalls = 1
  /\ replaceOk = "True"
  /\ attempts >= 2

\* C29: within one session stop() is called at most once and start() at
\* most once; start() is called only in a session that called stop()
\* before, and only by the entry step whose entry matches the stored code.
C29_ServiceCallsPerSession ==
  [][/\ stopCalls' <= 1
     /\ startCalls' <= 1
     /\ (startCalls' # startCalls /\ startCalls' # 0) =>
          /\ pc = "prompt"
          /\ stopCalls = 1
          /\ stopCalls' = 1
          /\ attempts' = attempts + 1
          /\ Matched'
          /\ \E r \in store : r.code = entered_code']_vars

\* an expiry-path session over: one stop(), then one start() on the match
C29_Witness ==
  /\ SessionOver
  /\ stopCalls = 1
  /\ startCalls = 1
  /\ startOk = "True"
  /\ msg = "restarted"
  /\ attempts >= 2

\* C30: a session that found the record not expired, and the prompt loop
\* of either path, leave the stored record as it is; the only write of the
\* validator is the one update of the expiry path, made once per session.
C30_ValidatorWritesOnce ==
  [][/\ replaceCalls' <= 1
     /\ (/\ pc \in {"check", "h_stop", "h_date", "h_period", "h_code",
                     "h_update", "prompt", "done"}
         /\ store' # store) =>
          /\ pc = "h_update"
          /\ is_expired = "True"
          /\ replaceCalls = 0
          /\ replaceCalls' = 1
     /\ (store' # store) => pc \in {"boot_insert", "h_update", "r_update"}]_vars

\* a session of the valid path over after three refused entries, the record
\* still the one the access check read
C30_Witness ==
  /\ SessionOver
  /\ is_expired = "False"
  /\ attempts = max_attempts
  /\ msg = "too_many"
  /\ replaceCalls = 0
  /\ codeSeen # NoValue
  /\ \E r \in store : r.code = codeSeen

====
